---- MODULE Spec2Model ----
(***************************************************************************)
(* sensor-producer.py: the Mi Flora polling-and-publish script.            *)
(*                                                                         *)
(* The script is one top-level sequence of statements: sensor              *)
(* initialization (lines 127-166), the openHAB branch (169-171) and the    *)
(* polling loop (176-226).  Text values (configuration keys, MAC           *)
(* addresses) are sequences of one-character strings; the characters       *)
(* outside ASCII are written as the tokens "a_uml", "o_uml", "u_uml",      *)
(* "A_uml", "O_uml", "U_uml", "eszett", "e_acute" and "nbsp".              *)
(***************************************************************************)
EXTENDS Integers, Sequences, FiniteSets, TLC

VARIABLES
    config,       \* config['Sensors']: the ordered (key, mac) entries
    gen_openhab,  \* parse_args.gen_openhab
    pc,           \* the statement the script is at
    i,            \* the entry the loop of line 128 is at
    flores,       \* the OrderedDict of line 127, as a sequence of (name, flora)
    idx,          \* the device the loop of line 178 is at
    attempts,     \* attempts, line 180
    data,         \* data, line 179: what the cycle has put in it
    calls,        \* the outcomes of the poller refreshes of the current cycle
    sink,         \* the publisher.publish calls made: (name, outcome)
    net_io,       \* the number of poller refreshes made (device round trips)
    log,          \* the print_line lines emitted
    exit_code,    \* the process's exit status, -1 while it runs
    error         \* the exception that ended the process, "none" otherwise

vars == <<config, gen_openhab, pc, i, flores, idx, attempts, data, calls,
          sink, net_io, log, exit_code, error>>

----------------------------------------------------------------------------
(* Bounds *)

\* the longest configuration (number of entries of config['Sensors'])
MaxDevices == 2

\* the longest configuration key of the one-entry configurations of NameSpec
MaxNameLen == 3

\* the most refreshes of one cycle that return without filling the cache
MaxSilent == 2

\* the most passes of the for statement PassesSpec follows
MaxPasses == 2

----------------------------------------------------------------------------
(* Text helpers *)

RECURSIVE Flatten(_)
\* the concatenation of a sequence of sequences
Flatten(ss) == IF ss = <<>> THEN <<>> ELSE Head(ss) \o Flatten(Tail(ss))

\* the positions of character c in s
Positions(s, c) == {k \in 1..Len(s) : s[k] = c}

\* the seven-bit characters the samples use
AsciiChars ==
    {"a", "b", "c", "e", "o", "r", "s", "u", "A", "O", "U", " ", "-", "@"}

\* str.isspace() on the characters the samples use
Whitespace == {" ", "nbsp"}

\* str.strip(): drop the leading and trailing whitespace
Strip(s) ==
    LET keep == {k \in 1..Len(s) : s[k] \notin Whitespace}
    IN  IF keep = {} THEN <<>>
        ELSE LET lo == CHOOSE k \in keep : \A m \in keep : k <= m
                 hi == CHOOSE k \in keep : \A m \in keep : m <= k
             IN  SubSeq(s, lo, hi)

\* str.replace(this, that) for a one-character this
Replace(s, this, that) ==
    Flatten([k \in 1..Len(s) |-> IF s[k] = this THEN that ELSE <<s[k]>>])

\* the replacement list of line 75, in its order
Replacements ==
    << <<" ", <<"-">> >>,
       <<"a_uml", <<"a", "e">> >>, <<"A_uml", <<"A", "e">> >>,
       <<"o_uml", <<"o", "e">> >>, <<"O_uml", <<"O", "e">> >>,
       <<"u_uml", <<"u", "e">> >>, <<"U_uml", <<"U", "e">> >>,
       <<"eszett", <<"s", "s">> >> >>

RECURSIVE ReplaceFrom(_, _)
\* the for loop of lines 75-76 from pair k on
ReplaceFrom(s, k) ==
    IF k > Len(Replacements) THEN s
    ELSE ReplaceFrom(Replace(s, Replacements[k][1], Replacements[k][2]), k + 1)

\* unidecode() of one character: ASCII is kept, the rest is transliterated
UnidecodeChar(c) ==
    CASE c \in AsciiChars -> <<c>>
      [] c = "a_uml" -> <<"a">>
      [] c = "A_uml" -> <<"A">>
      [] c = "o_uml" -> <<"o">>
      [] c = "O_uml" -> <<"O">>
      [] c = "u_uml" -> <<"u">>
      [] c = "U_uml" -> <<"U">>
      [] c = "eszett" -> <<"s", "s">>
      [] c = "e_acute" -> <<"e">>
      [] c = "nbsp" -> <<" ">>
      [] OTHER -> <<c>>

\* unidecode(): character by character
Unidecode(s) == Flatten([k \in 1..Len(s) |-> UnidecodeChar(s[k])])

\* clean_identifier, lines 73-78
clean_identifier(name) == Unidecode(ReplaceFrom(Strip(name), 1))

----------------------------------------------------------------------------
(* The MAC check of line 129 *)

HexUpper == {"0", "1", "2", "3", "4", "5", "6", "7", "8", "9",
             "A", "B", "C", "D", "E", "F"}

\* "C4:7C:8D:[0-9A-F]{2}:[0-9A-F]{2}:[0-9A-F]{2}", "HEX" standing for [0-9A-F]
MacPattern ==
    <<"C", "4", ":", "7", "C", ":", "8", "D", ":",
      "HEX", "HEX", ":", "HEX", "HEX", ":", "HEX", "HEX">>

\* one pattern element against one character
PatternAccepts(p, c) == IF p = "HEX" THEN c \in HexUpper ELSE c = p

\* re.match(pattern, mac): the pattern must match at the start of mac; what
\* follows the match is not looked at
re_match(mac) ==
    /\ Len(mac) >= Len(MacPattern)
    /\ \A k \in 1..Len(MacPattern) : PatternAccepts(MacPattern[k], mac[k])

----------------------------------------------------------------------------
(* The configurations tried *)

MacGood == <<"C", "4", ":", "7", "C", ":", "8", "D", ":",
             "1", "1", ":", "2", "2", ":", "3", "3">>
\* lower-case hex digits
MacLower == <<"C", "4", ":", "7", "C", ":", "8", "D", ":",
              "a", "a", ":", "b", "b", ":", "c", "c">>
\* another vendor prefix
MacVendor == <<"A", "A", ":", "7", "C", ":", "8", "D", ":",
               "1", "1", ":", "2", "2", ":", "3", "3">>
\* a seventh group after a well-formed address
MacLong == MacGood \o <<":", "4", "4">>

MacSamples == {MacGood, MacLower, MacVendor, MacLong}

\* "a", "a@r", "b c@r" and "a@b@c"
NameSamples ==
    { <<"a">>,
      <<"a", "@", "r">>,
      <<"b", " ", "c", "@", "r">>,
      <<"a", "@", "b", "@", "c">> }

Entries == [key : NameSamples, mac : MacSamples]

RECURSIVE SeqsUpTo(_, _)
\* the sequences over S of length at most n
SeqsUpTo(S, n) ==
    IF n = 0 THEN {<<>>}
    ELSE LET shorter == SeqsUpTo(S, n - 1)
         IN  shorter \cup {Append(s, x) : s \in {t \in shorter : Len(t) = n - 1}, x \in S}

Configs == SeqsUpTo(Entries, MaxDevices)

\* the characters of the keys of NameSpec
NameChars == {"a", " ", "nbsp", "o_uml", "@"}

\* the keys ConfigParser can hand over: not empty, and stripped (line 115)
Keys ==
    {s \in SeqsUpTo(NameChars, MaxNameLen) : s # <<>> /\ Strip(s) = s}

----------------------------------------------------------------------------
(* Sensor initialization, lines 127-166 *)

\* name.split('@'), line 134: the pieces between the '@' characters
Split(name) ==
    LET at == Positions(name, "@")
        cuts == {0} \cup at \cup {Len(name) + 1}
        next(k) == CHOOSE m \in cuts : m > k /\ \A n \in cuts : n > k => m <= n
        RECURSIVE From(_)
        From(k) == IF k > Len(name) THEN <<>>
                   ELSE <<SubSeq(name, k + 1, next(k) - 1)>> \o From(next(k))
    IN  <<SubSeq(name, 1, next(0) - 1)>> \o From(next(0))

\* lines 133-136 need exactly two pieces when the key holds an '@': the
\* two-target assignment raises ValueError otherwise
SplitRaises(name) == Positions(name, "@") # {} /\ Len(Split(name)) # 2

name_pretty(name) == IF Positions(name, "@") # {} THEN Split(name)[1] ELSE name
location_pretty(name) == IF Positions(name, "@") # {} THEN Split(name)[2] ELSE <<>>

\* a print_line line; num/den carry the success rate of the line of lines 198-200
Line(text) == [line |-> text, num |-> 0, den |-> 0]

\* the stats of a new flora, line 152
NewStats == [count |-> 0, success |-> 0, failure |-> 0]

\* the flora dict of lines 140-158; probe_ok is the outcome of the try of
\* lines 153-156, which alone sets flora['firmware']
NewFlora(name, mac, probe_ok) ==
    [name_pretty |-> name_pretty(name),
     mac |-> mac,
     location_clean |-> clean_identifier(location_pretty(name)),
     location_pretty |-> location_pretty(name),
     stats |-> NewStats,
     firmware |-> IF probe_ok THEN "set" ELSE "unset",
     cache |-> probe_ok]

\* flores[name] = flora on an OrderedDict, line 166: a key already present
\* keeps its position and gets the new value
Put(reg, name, flora) ==
    IF \E k \in 1..Len(reg) : reg[k].name = name
    THEN [k \in 1..Len(reg) |->
            IF reg[k].name = name THEN [name |-> name, flora |-> flora] ELSE reg[k]]
    ELSE Append(reg, [name |-> name, flora |-> flora])

\* the registry after one pass of the loop body of lines 128-166 that
\* reaches line 166
Registered(reg, entry, probe_ok) ==
    Put(reg, clean_identifier(name_pretty(entry.key)),
        NewFlora(entry.key, entry.mac, probe_ok))

\* the process ends: sys.exit(code), or an exception nothing catches
Exit(code, exc) ==
    /\ pc' = "exit"
    /\ exit_code' = code
    /\ error' = exc

\* lines 129-131: the MAC does not pass the check
RejectMac ==
    /\ pc = "init" /\ i <= Len(config)
    /\ ~re_match(config[i].mac)
    /\ log' = Append(log, Line("wrong_mac"))
    /\ Exit(1, "SystemExit")
    /\ UNCHANGED <<config, gen_openhab, i, flores, idx, attempts, data, calls,
                   sink, net_io>>

\* line 134: name.split('@') gives more than two pieces
SplitFails ==
    /\ pc = "init" /\ i <= Len(config)
    /\ re_match(config[i].mac)
    /\ SplitRaises(config[i].key)
    /\ Exit(1, "ValueError")
    /\ UNCHANGED <<config, gen_openhab, i, flores, idx, attempts, data, calls,
                   sink, net_io, log>>

\* lines 133-166: the sensor is probed once and added
AddSensor ==
    /\ pc = "init" /\ i <= Len(config)
    /\ re_match(config[i].mac)
    /\ ~SplitRaises(config[i].key)
    /\ \E probe_ok \in BOOLEAN :
          /\ flores' = Registered(flores, config[i], probe_ok)
          /\ log' = Append(log, Line(IF probe_ok THEN "probe_ok" ELSE "probe_failed"))
    /\ net_io' = net_io + 1
    /\ i' = i + 1
    /\ UNCHANGED <<config, gen_openhab, pc, idx, attempts, data, calls, sink,
                   exit_code, error>>

\* lines 169-170: the arguments of the call name reporting_mode, which no
\* statement of the script binds: NameError, before the call and before
\* sys.exit(0)
GenOpenhab ==
    /\ pc = "init" /\ i > Len(config)
    /\ gen_openhab
    /\ Exit(1, "NameError")
    /\ UNCHANGED <<config, gen_openhab, i, flores, idx, attempts, data, calls,
                   sink, net_io, log>>

\* lines 173-176: default mode enters the loop
StartLoop ==
    /\ pc = "init" /\ i > Len(config)
    /\ ~gen_openhab
    /\ log' = Append(log, Line("init_complete"))
    /\ pc' = "sleep"
    /\ UNCHANGED <<config, gen_openhab, i, flores, idx, attempts, data, calls,
                   sink, net_io, exit_code, error>>

\* line 177: time is the function bound by line 10 (from time import time),
\* which replaced the module bound by line 4; it has no attribute sleep:
\* AttributeError
Sleep ==
    /\ pc = "sleep"
    /\ Exit(1, "AttributeError")
    /\ UNCHANGED <<config, gen_openhab, i, flores, idx, attempts, data, calls,
                   sink, net_io, log>>

\* the script is started
Init ==
    /\ config \in Configs
    /\ gen_openhab \in BOOLEAN
    /\ pc = "init"
    /\ i = 1
    /\ flores = <<>>
    /\ idx = 0
    /\ attempts = 0
    /\ data = "none"
    /\ calls = <<>>
    /\ sink = <<>>
    /\ net_io = 0
    /\ log = <<>>
    /\ exit_code = -1
    /\ error = "none"

Next ==
    \/ RejectMac
    \/ SplitFails
    \/ AddSensor
    \/ GenOpenhab
    \/ StartLoop
    \/ Sleep

\* the script as written, from its start
Spec == Init /\ [][Next]_vars

----------------------------------------------------------------------------
(* The polling loop, lines 176-226 *)

\* attempts = 2, line 180
MAX_ATTEMPTS == 2

\* lines 198-200 with the rate taken as stats['failure'] / stats['count']
FailedLine_failures(st) == [line |-> "failed", num |-> st.failure, den |-> st.count]

\* lines 198-200: the rate is stats['success'] / stats['count']
FailedLine(st) == [line |-> "failed", num |-> st.success, den |-> st.count]

\* line 183 left out
CountAttempt_skip(st) == st

\* line 183
CountAttempt(st) == [st EXCEPT !.count = @ + 1]

\* line 197 adding to the wrong counter
CountFailure_as_success(st) == [st EXCEPT !.success = @ + 1]

\* line 197
CountFailure(st) == [st EXCEPT !.failure = @ + 1]

\* line 204 with failure set back to 0
CountSuccess_reset(st) == [st EXCEPT !.success = @ + 1, !.failure = 0]

\* line 204
CountSuccess(st) == [st EXCEPT !.success = @ + 1]

\* lines 181-182 and 193-194 left out
Invalidate_keep(f) == f

\* lines 181-182 and 193-194: poller._cache = None
Invalidate(f) == [f EXCEPT !.cache = FALSE]

\* line 185 without the test of attempts
Retry_unbounded(f, att) == ~f.cache

\* the condition of the while of line 185
Retry(f, att) == att # 0 /\ ~f.cache

\* the condition of line 196: not poller._cache
CacheEmpty(f) == ~f.cache

\* lines 178-184: the for statement takes the next device and starts its cycle
BeginCycle ==
    /\ pc = "for" /\ idx <= Len(flores)
    /\ data' = "empty"
    /\ attempts' = MAX_ATTEMPTS
    /\ flores' = [flores EXCEPT ![idx].flora =
                     [Invalidate(@) EXCEPT !.stats = CountAttempt(@)]]
    /\ log' = Append(log, Line("retrieving"))
    /\ calls' = <<>>
    /\ pc' = "while"
    /\ UNCHANGED <<config, gen_openhab, i, idx, sink, net_io, exit_code, error>>

\* the number of refreshes of the current cycle that ended as what
Count(what) == Cardinality({k \in 1..Len(calls) : calls[k] = what})

\* lines 190-191 with the warning printed after every raise
WarnRetry_always(att) == TRUE

\* lines 190-191: the warning is printed when an attempt is left
WarnRetry(att) == att > 0

\* lines 185-194: one turn of the while loop; fill_cache and
\* parameter_value(MI_LIGHT) return with the cache filled ("filled"), or
\* raise IOError or BluetoothBackendException ("raised")
Refresh ==
    /\ pc = "while" /\ Retry(flores[idx].flora, attempts)
    /\ net_io' = net_io + 1
    /\ \E outcome \in {"filled", "raised"} :
          /\ calls' = Append(calls, outcome)
          /\ IF outcome = "filled"
             THEN /\ flores' = [flores EXCEPT ![idx].flora.cache = TRUE]
                  /\ UNCHANGED <<attempts, log>>
             ELSE /\ attempts' = attempts - 1
                  /\ log' = IF WarnRetry(attempts - 1)
                            THEN Append(log, Line("retrying")) ELSE log
                  /\ flores' = [flores EXCEPT ![idx].flora = Invalidate(@)]
    /\ UNCHANGED <<config, gen_openhab, pc, i, idx, data, sink, exit_code, error>>

\* lines 185-188 with a poller whose fill_cache and parameter_value(MI_LIGHT)
\* return without raising and leave _cache empty ("silent"): the except
\* clause is not entered, nothing is assigned, and the while condition is
\* evaluated again
SilentRefresh ==
    /\ pc = "while" /\ Retry(flores[idx].flora, attempts)
    /\ Count("silent") < MaxSilent
    /\ net_io' = net_io + 1
    /\ calls' = Append(calls, "silent")
    /\ UNCHANGED <<config, gen_openhab, pc, i, flores, idx, attempts, data,
                   sink, log, exit_code, error>>

\* lines 196-204, once the while loop has ended
CheckCache ==
    /\ pc = "while" /\ ~Retry(flores[idx].flora, attempts)
    /\ IF CacheEmpty(flores[idx].flora)
       THEN /\ flores' = [flores EXCEPT ![idx].flora.stats = CountFailure(@)]
            /\ log' = Append(log, FailedLine(CountFailure(flores[idx].flora.stats)))
            /\ idx' = idx + 1
            /\ pc' = "for"
       ELSE /\ flores' = [flores EXCEPT ![idx].flora.stats = CountSuccess(@)]
            /\ pc' = "build"
            /\ UNCHANGED <<log, idx>>
    /\ UNCHANGED <<config, gen_openhab, i, attempts, data, calls, sink, net_io,
                   exit_code, error>>

\* line 214 reads flora['firmware'], which only a successful probe has set
FirmwareMissing(f) == f.firmware = "unset"

\* lines 206-215: data gets the parameters (from the filled cache), the
\* result line is logged, then the metadata is added; flora['firmware']
\* raises KeyError when the key is missing
BuildReading ==
    /\ pc = "build"
    /\ log' = Append(log, Line("result"))
    /\ IF FirmwareMissing(flores[idx].flora)
       THEN /\ data' = "parameters"
            /\ Exit(1, "KeyError")
       ELSE /\ data' = "reading"
            /\ pc' = "publish"
            /\ UNCHANGED <<exit_code, error>>
    /\ UNCHANGED <<config, gen_openhab, i, flores, idx, attempts, calls, sink,
                   net_io>>

\* lines 217-226: publisher.publish is called with the message; nothing
\* catches what it raises
Publish ==
    /\ pc = "publish"
    /\ \E ok \in BOOLEAN :
          /\ sink' = Append(sink, [name |-> flores[idx].name, ok |-> ok])
          /\ IF ok
             THEN /\ idx' = idx + 1
                  /\ pc' = "for"
                  /\ UNCHANGED <<exit_code, error>>
             ELSE /\ Exit(1, "PublishError")
                  /\ UNCHANGED idx
    /\ UNCHANGED <<config, gen_openhab, i, flores, attempts, data, calls,
                   net_io, log>>

\* the for statement of line 178 is exhausted: back to line 177
EndPass ==
    /\ pc = "for" /\ idx > Len(flores)
    /\ pc' = "sleep"
    /\ UNCHANGED <<config, gen_openhab, i, flores, idx, attempts, data, calls,
                   sink, net_io, log, exit_code, error>>

----------------------------------------------------------------------------
(* The loop body on its own *)

\* every entry passes lines 129-136
Loadable(cfg) ==
    \A k \in 1..Len(cfg) : re_match(cfg[k].mac) /\ ~SplitRaises(cfg[k].key)

RECURSIVE Built(_, _)
\* the registry lines 127-166 build from cfg when the probes end as probes says
Built(cfg, probes) ==
    IF cfg = <<>> THEN <<>>
    ELSE Registered(Built(SubSeq(cfg, 1, Len(cfg) - 1), probes),
                    cfg[Len(cfg)], probes[Len(cfg)])

\* the lines print_line has emitted when line 176 is reached
StartLog(cfg, probes) ==
    [k \in 1..Len(cfg) + 1 |->
        IF k > Len(cfg) THEN Line("init_complete")
        ELSE IF probes[k] THEN Line("probe_ok") ELSE Line("probe_failed")]

\* the for statement of line 178 is entered with what initialization leaves
LoopInit ==
    /\ config \in {cfg \in Configs : Loadable(cfg)}
    /\ gen_openhab = FALSE
    /\ \E probes \in [1..Len(config) -> BOOLEAN] :
          /\ flores = Built(config, probes)
          /\ log = StartLog(config, probes)
    /\ i = Len(config) + 1
    /\ net_io = Len(config)
    /\ pc = "for"
    /\ idx = 1
    /\ attempts = 0
    /\ data = "none"
    /\ calls = <<>>
    /\ sink = <<>>
    /\ exit_code = -1
    /\ error = "none"

LoopNext ==
    \/ BeginCycle
    \/ Refresh
    \/ CheckCache
    \/ BuildReading
    \/ Publish
    \/ EndPass
    \/ Sleep

\* one pass of lines 178-226 and the return to line 177.  The script as
\* written never gets to line 178 (Sleep); this is the code of the loop body
\* taken on its own, on the registries initialization builds.
LoopSpec == LoopInit /\ [][LoopNext]_vars

\* line 176: while True enters the for statement of line 178 again (the call
\* of line 177 left aside); count of the first device is the number of
\* passes begun
NextPass ==
    /\ pc = "sleep"
    /\ flores # <<>> /\ flores[1].flora.stats.count < MaxPasses
    /\ pc' = "for"
    /\ idx' = 1
    /\ UNCHANGED <<config, gen_openhab, i, flores, attempts, data, calls,
                   sink, net_io, log, exit_code, error>>

PassesNext ==
    \/ BeginCycle
    \/ Refresh
    \/ CheckCache
    \/ BuildReading
    \/ Publish
    \/ EndPass
    \/ NextPass

\* lines 178-226 repeated as line 176 repeats them, without the call of line
\* 177 that in the script as written raises before the first pass
PassesSpec == LoopInit /\ [][PassesNext]_vars

OpaqueNext ==
    \/ LoopNext
    \/ SilentRefresh

\* LoopSpec with a poller that may also return without raising and without
\* filling the cache
OpaqueSpec == LoopInit /\ [][OpaqueNext]_vars

----------------------------------------------------------------------------
(* Sensor initialization on one entry *)

\* the script is started in default mode on a configuration of one entry
\* with a well-formed address and any key
NameInit ==
    /\ config \in {<<[key |-> s, mac |-> MacGood]>> : s \in Keys}
    /\ gen_openhab = FALSE
    /\ pc = "init"
    /\ i = 1
    /\ flores = <<>>
    /\ idx = 0
    /\ attempts = 0
    /\ data = "none"
    /\ calls = <<>>
    /\ sink = <<>>
    /\ net_io = 0
    /\ log = <<>>
    /\ exit_code = -1
    /\ error = "none"

NameNext ==
    \/ SplitFails
    \/ AddSensor
    \/ StartLoop
    \/ Sleep

\* the script as written on the one-entry configurations
NameSpec == NameInit /\ [][NameNext]_vars

----------------------------------------------------------------------------
(* Claims *)

\* the stats of the k-th device of the registry
Stats(k) == flores[k].flora.stats

\* the cycle of the k-th device has counted its attempt (line 183) and not
\* yet its outcome (lines 197, 204)
InProgress(k) == pc = "while" /\ idx = k

\* the number of publisher.publish calls made for the device named name
SinkCalls(name) == Cardinality({m \in 1..Len(sink) : sink[m].name = name})

\* the refreshes of the current cycle: k failures, then a success
SucceededAfter(k) ==
    /\ Len(calls) = k + 1
    /\ calls[k + 1] = "filled"
    /\ \A j \in 1..k : calls[j] = "raised"

\* the refreshes of the current cycle: MAX_ATTEMPTS failures
AllFailed ==
    Len(calls) = MAX_ATTEMPTS /\ \A j \in 1..Len(calls) : calls[j] = "raised"

C2_RetryThenSuccess ==
    \A k \in 0..MAX_ATTEMPTS - 1 :
        (/\ SucceededAfter(k)
         /\ \/ pc = "publish"
            \/ pc = "exit" /\ error = "KeyError") =>
            /\ Stats(idx) = [count |-> 1, success |-> 1, failure |-> 0]
            /\ data = "reading"

\* C3: when all MAX_ATTEMPTS refreshes of a cycle fail, the cycle is a
\* failure: the loop goes on to the next device with count and failure up
\* by one (from 0), success unchanged, no Reading built and no publish call
\* for the device.
C3_AllAttemptsFail ==
    (AllFailed /\ pc # "while") =>
        /\ idx > 1
        /\ Stats(idx - 1) = [count |-> 1, success |-> 0, failure |-> 1]
        /\ data = "empty"
        /\ SinkCalls(flores[idx - 1].name) = 0

\* C3 witness: a cycle has just ended after MAX_ATTEMPTS failed refreshes.
C3_Witness == AllFailed /\ pc = "for"

\* C4 (as claimed): when the pass is over (the loop is back at line 177, or
\* the process has stopped), every registered device has had exactly one
\* cycle, and the cycles were given in registry order.
C4_EveryDevicePolled ==
    /\ pc \in {"sleep", "exit"} => \A k \in 1..Len(flores) : Stats(k).count = 1
    /\ \A k \in 1..Len(flores) :
          Stats(k).count = 1 => \A j \in 1..k : Stats(j).count = 1

\* C5 (as claimed): in default mode, once initialization is complete (line
\* 173) the process never stops.
C5_NeverStops ==
    (~gen_openhab /\ \E m \in 1..Len(log) : log[m].line = "init_complete") =>
        pc # "exit"

\* C6 (as claimed): a device whose startup probe failed is registered, and
\* when a cycle of it has succeeded and has got past lines 206-226, its
\* Reading has been published and no KeyError has ended the process.
C6_ProbeFailedDevicePublishes ==
    \A k \in 1..Len(flores) :
        (/\ flores[k].flora.firmware = "unset"
         /\ Stats(k).success = 1
         /\ ~(idx = k /\ pc \in {"build", "publish"})) =>
            /\ SinkCalls(flores[k].name) = 1
            /\ error # "KeyError"

\* C7 (as claimed): when a publish call fails, the failure is logged and
\* the process goes on.
C7_PublishFailureSurvived ==
    (\E m \in 1..Len(sink) : ~sink[m].ok) =>
        /\ \E n \in 1..Len(log) : log[n].line = "publish_failed"
        /\ error # "PublishError"

\* the pattern of line 129 over the whole address
WellFormed(mac) == Len(mac) = Len(MacPattern) /\ re_match(mac)

\* C8 (as claimed): when every address is well-formed, building the
\* registry never fails; when one is not, no cycle is ever attempted, the
\* sink is never called and the process does not end with status 0.
C8_MacValidation ==
    LET all_good == \A k \in 1..Len(config) : WellFormed(config[k].mac)
    IN  /\ all_good => error \notin {"SystemExit", "ValueError"}
        /\ ~all_good =>
              /\ \A k \in 1..Len(flores) : Stats(k).count = 0
              /\ sink = <<>>
              /\ exit_code # 0

\* C9 (as claimed): for every device whose cycle is not under way, the
\* number of publish calls made for it equals its successful cycles.
C9_OnePublishPerSuccess ==
    \A k \in 1..Len(flores) :
        ~(idx = k /\ pc \in {"while", "build", "publish"}) =>
            SinkCalls(flores[k].name) = Stats(k).success

\* C10 (as claimed): with --gen-openhab and a configuration that loads, no
\* device is ever contacted, the polling loop is never entered, and the
\* process ends with status 0 and no exception.
C10_GenerateAndExit ==
    (gen_openhab /\ Loadable(config)) =>
        /\ net_io = 0
        /\ sink = <<>>
        /\ pc # "sleep"
        /\ pc = "exit" => exit_code = 0 /\ error = "none"

\* C11 (as claimed): the identifiers clean_identifier has produced (the
\* registry key and location_clean of every flora) are left unchanged by
\* clean_identifier, hold ASCII characters only and hold no space.
C11_CleanIdempotentAscii ==
    \A k \in 1..Len(flores) :
        \A id \in {flores[k].name, flores[k].flora.location_clean} :
            /\ clean_identifier(id) = id
            /\ \A m \in 1..Len(id) : id[m] \in AsciiChars /\ id[m] # " "

\* the text before the first '@' of key (the whole key without '@')
BeforeFirstAt(key) ==
    LET at == Positions(key, "@")
    IN  IF at = {} THEN key
        ELSE SubSeq(key, 1, (CHOOSE m \in at : \A n \in at : m <= n) - 1)

\* the text after the first '@' of key (empty without '@')
AfterFirstAt(key) ==
    LET at == Positions(key, "@")
    IN  IF at = {} THEN <<>>
        ELSE SubSeq(key, (CHOOSE m \in at : \A n \in at : m <= n) + 1, Len(key))

\* C12 (as claimed): once the loop of line 128 is done with the entry (or
\* the process has ended), the device is registered with the text before
\* the first '@' as name and the text after it as location.
C12_SplitOnFirstAt ==
    (i > 1 \/ pc = "exit") =>
        /\ Len(flores) = 1
        /\ flores[1].flora.name_pretty = BeforeFirstAt(config[1].key)
        /\ flores[1].flora.location_pretty = AfterFirstAt(config[1].key)

LastCall == IF calls = <<>> THEN "none" ELSE calls[Len(calls)]

FailedLines == {m \in 1..Len(log) : log[m].line = "failed"}

RECURSIVE Failures(_)
\* the failed cycles of the first k devices together
Failures(k) == IF k = 0 THEN 0 ELSE Failures(k - 1) + Stats(k).failure

\* C15: there are as many failure lines as failed cycles; every failure line
\* carries a rate success/count with count >= 1, and the line of the cycle
\* that has just failed carries that device's success and count; while no
\* cycle of any device has succeeded every device has count = failure once
\* its cycle is over, every line is at 0 and the sink has had no call.
C15_FailureLinePerFailedCycle ==
    /\ Cardinality(FailedLines) = Failures(Len(flores))
    /\ \A m \in FailedLines : log[m].den >= 1 /\ log[m].num < log[m].den
    /\ (pc = "for" /\ idx > 1 /\ LastCall = "raised") =>
          log[Len(log)] = [line |-> "failed", num |-> Stats(idx - 1).success,
                           den |-> Stats(idx - 1).count]
    /\ (\A k \in 1..Len(flores) : Stats(k).success = 0) =>
          /\ \A m \in FailedLines : log[m].num = 0
          /\ \A k \in 1..Len(flores) :
                ~InProgress(k) => Stats(k).failure = Stats(k).count
          /\ sink = <<>>

\* C15 witness: after MaxPasses passes one device has failed every cycle and
\* another has just failed after an earlier success, its line showing 1/2.
C15_Witness ==
    /\ pc = "for" /\ idx > 1 /\ LastCall = "raised"
    /\ Stats(idx - 1) = [count |-> 2, success |-> 1, failure |-> 1]
    /\ log[Len(log)] = [line |-> "failed", num |-> 1, den |-> 2]
    /\ \E k \in 1..Len(flores) : Stats(k) = [count |-> 2, success |-> 0, failure |-> 2]

\* C16 (as claimed): the loop is at its sleep (line 177) only when every
\* device has had its cycle of the pass, and the sleep is made: the call
\* returns and the next pass follows.
C16_SleepAfterEveryPass ==
    /\ pc = "sleep" => \A k \in 1..Len(flores) : Stats(k).count >= 1
    /\ ~(pc = "exit" /\ error = "AttributeError")

\* C17 (as claimed): once every entry of the configuration has been taken
\* without the process stopping, the registry holds one Device per entry, in
\* the order of the entries; entries whose names normalize to the same
\* identity stop the load.
C17_OneDevicePerEntry ==
    i > Len(config) =>
        /\ Len(flores) = Len(config)
        /\ \A k \in 1..Len(flores) :
              flores[k].name = clean_identifier(name_pretty(config[k].key))

\* C18: every device enters the loop with its three counters at 0, whatever
\* its startup probe did; every step of the loop leaves the registry's
\* identities and addresses as they are, lowers no counter, and changes the
\* counters of no device other than the one whose cycle is in hand.
C18_CountersFrame ==
    /\ \A k \in 1..Len(flores) : Stats(k) = NewStats
    /\ [][/\ Len(flores') = Len(flores)
          /\ \A k \in 1..Len(flores) :
                /\ flores'[k].name = flores[k].name
                /\ flores'[k].flora.mac = flores[k].flora.mac
                /\ Stats(k)'.count >= Stats(k).count
                /\ Stats(k)'.success >= Stats(k).success
                /\ Stats(k)'.failure >= Stats(k).failure
                /\ k # idx => Stats(k)' = Stats(k)]_vars

\* C18 witness: in a later pass a cycle of one device ends as a success after
\* an earlier failure of the same device, while another device still has the
\* counters of its single cycle.
C18_Witness ==
    /\ pc = "build"
    /\ Stats(idx) = [count |-> 2, success |-> 1, failure |-> 1]
    /\ \E k \in 1..Len(flores) : k # idx /\ Stats(k).count = 1

\* the 'Retrying ...' warnings of the cycle in hand: those after the latest
\* 'Retrieving data' line
Warnings ==
    Cardinality({m \in 1..Len(log) :
        /\ log[m].line = "retrying"
        /\ \A n \in m..Len(log) : log[n].line # "retrieving"})

\* the cycle of the device before idx has just ended as a failure
JustFailed == pc = "for" /\ idx > 1 /\ calls # <<>> /\ LastCall # "filled"

====
